---- MODULE Spec2Model ----
(***************************************************************************)
(* State-machine model of shell_pfs.c (STM Shell demo PFS): the command    *)
(* functions command_cnt, command_led_toggle, command_load, command_flash, *)
(* their function-static contexts, and the command blocks root_block,      *)
(* level_1_block, level_2_block.  The outer shell (shell.h / shell.c: the  *)
(* prompt, the output state and the DMA completion) is not part of         *)
(* shell_pfs.c and is modelled from the specification.                     *)
(***************************************************************************)
EXTENDS Integers, Sequences, FiniteSets, TLC

\* ------------------------------------------------------------------ bounds
\* Largest value of the per-phase delay constant max_delay with which runs of
\* command_flash that flash the LED are explored; the source's own values
\* are explored with the input lines that do not flash.
MaxDelayBound == 2
\* Largest number of command selections in one behaviour.
MaxRuns == 3
\* Largest number of selections of command_load in one behaviour; it keeps the
\* printed value accu / 10000 within the range of a 32-bit long.
MaxLoadRuns == 2

\* ------------------------------------------------------- program constants
\* Null pointer (the literal 0 stored in a function or block pointer).
NULL == "0"
\* command_load: iteration limit of the counter (cnt == 500).
LOAD_LIMIT == 500
\* command_load: trip count of the time-wasting loop (k < 10000).
LOAD_LOOP == 10000
\* command_load: divisor applied to accu when it is printed.
ACCU_DIV == 10000
\* command_flash: const int max_delay, with the macros and without them.
MAX_DELAY == 10000000
MAX_DELAY_SWITCH == 100000

\* ------------------------------------------------------------ command tree
\* Content of the function-pointer field of a t_shell_block_entry: a command
\* function, the null pointer, or (title entries) a count cast by BLOCK_LEN.
BLOCK_LEN(n) == [tag |-> "len", fn |-> NULL, len |-> n]
FN(f) == [tag |-> "fn", fn |-> f, len |-> 0]
NOFN == [tag |-> "null", fn |-> NULL, len |-> 0]
\* CMD_BLOCK casts a block's address into the third field.
CMD_BLOCK(b) == b

level_2_block_loops_back ==
  << [label |-> "Level 2", fp |-> BLOCK_LEN(2), block |-> NULL],
     [label |-> "command 2.1", fp |-> FN("command_led_toggle"), block |-> NULL],
     [label |-> "command 2.2", fp |-> NOFN, block |-> CMD_BLOCK("level_1_block")] >>

level_2_block_both ==
  << [label |-> "Submenu 2", fp |-> BLOCK_LEN(2), block |-> NULL],
     [label |-> "load - performance test", fp |-> FN("command_load"), block |-> CMD_BLOCK("level_2_block")],
     [label |-> "load - performance test", fp |-> FN("command_load"), block |-> NULL] >>

level_2_block ==
  << [label |-> "Submenu 2", fp |-> BLOCK_LEN(2), block |-> NULL],
     [label |-> "load - performance test", fp |-> FN("command_load"), block |-> NULL],
     [label |-> "load - performance test", fp |-> FN("command_load"), block |-> NULL] >>

level_1_block_miscounted ==
  << [label |-> "Submenu 1", fp |-> BLOCK_LEN(4), block |-> NULL],
     [label |-> "load - performance test", fp |-> FN("command_load"), block |-> NULL],
     [label |-> "load - performance test", fp |-> FN("command_load"), block |-> NULL],
     [label |-> "sm2 - nested submenu example", fp |-> NOFN, block |-> CMD_BLOCK("level_2_block")] >>

level_1_block ==
  << [label |-> "Submenu 1", fp |-> BLOCK_LEN(3), block |-> NULL],
     [label |-> "load - performance test", fp |-> FN("command_load"), block |-> NULL],
     [label |-> "load - performance test", fp |-> FN("command_load"), block |-> NULL],
     [label |-> "sm2 - nested submenu example", fp |-> NOFN, block |-> CMD_BLOCK("level_2_block")] >>

root_block_title_counted ==
  << [label |-> "STM32", fp |-> BLOCK_LEN(6), block |-> NULL],
     [label |-> "sm1 - submenu example", fp |-> NOFN, block |-> CMD_BLOCK("level_1_block")],
     [label |-> "led - toggles the blue LED", fp |-> FN("command_led_toggle"), block |-> NULL],
     [label |-> "flash N - flash the LED 'N' times", fp |-> FN("command_flash"), block |-> NULL],
     [label |-> "cnt - displays its own call count", fp |-> FN("command_cnt"), block |-> NULL],
     [label |-> "load - performance test", fp |-> FN("command_load"), block |-> NULL] >>

root_block ==
  << [label |-> "STM32", fp |-> BLOCK_LEN(5), block |-> NULL],
     [label |-> "sm1 - submenu example", fp |-> NOFN, block |-> CMD_BLOCK("level_1_block")],
     [label |-> "led - toggles the blue LED", fp |-> FN("command_led_toggle"), block |-> NULL],
     [label |-> "flash N - flash the LED 'N' times", fp |-> FN("command_flash"), block |-> NULL],
     [label |-> "cnt - displays its own call count", fp |-> FN("command_cnt"), block |-> NULL],
     [label |-> "load - performance test", fp |-> FN("command_load"), block |-> NULL] >>

BlockNames == {"root_block", "level_1_block", "level_2_block"}

\* The array a block name stands for.
BlockArray(b) ==
  CASE b = "root_block" -> root_block
    [] b = "level_1_block" -> level_1_block
    [] b = "level_2_block" -> level_2_block

\* Number of entries physically present in the array (sizeof / sizeof [0]).
PhysicalEntries(b) == Len(BlockArray(b))

\* Command Tree contract of the specification (section 4.2).  C index i of a
\* block is element i + 1 of the sequence; index 0 is the title entry.
entry_count(b) == BlockArray(b)[1].fp.len
child(b, i) == BlockArray(b)[i + 1]
descend(e) == e.block
select(e) == IF e.fp.tag = "fn" THEN e.fp.fn ELSE NULL

\* Entries of a block behind its title that are bound to a command function.
Leaves(b) == { i \in 1 .. PhysicalEntries(b) - 1 : select(child(b, i)) # NULL }
\* Entries of a block behind its title that refer to a child block.
Submenus(b) == { i \in 1 .. PhysicalEntries(b) - 1 : descend(child(b, i)) # NULL }
\* The blocks the submenu entries of a block refer to.
ChildBlocks(b) == { descend(child(b, i)) : i \in Submenus(b) }

\* The blocks that are reached from the blocks of todo by following submenu
\* entries, those of seen not being entered again.
RECURSIVE BlocksFrom(_, _)
BlocksFrom(todo, seen) ==
  IF todo = {} THEN seen
  ELSE LET b == CHOOSE x \in todo : TRUE
       IN  BlocksFrom((todo \cup ChildBlocks(b)) \ (seen \cup {b}), seen \cup {b})

\* The submenu entries of all blocks, as pairs of a block and an index.
SubmenuEntries == UNION { { << p, i >> : i \in Submenus(p) } : p \in BlockNames }
\* Number of submenu entries that refer to block b.
InDegree(b) ==
  Cardinality({ e \in SubmenuEntries : descend(child(e[1], e[2])) = b })
\* The blocks reached from b by one or more descend steps.
Descendants(b) == BlocksFrom(ChildBlocks(b), {})

\* ------------------------------------------------- library calls, as used
\* The vertical tab, character code 11.
VT == ""

\* Characters accepted by isspace: codes 32, 9, 10, 11, 12 and 13.
WhiteSpace == {" ", "\t", "\n", VT, "\f", "\r"}

\* Value of a digit character; 99 when the character is no digit at all.
DigitVal(c) ==
  CASE c = "0" -> 0 [] c = "1" -> 1 [] c = "2" -> 2 [] c = "3" -> 3
    [] c = "4" -> 4 [] c = "5" -> 5 [] c = "6" -> 6 [] c = "7" -> 7
    [] c = "8" -> 8 [] c = "9" -> 9
    [] c \in {"a", "A"} -> 10 [] c \in {"b", "B"} -> 11 [] c \in {"c", "C"} -> 12
    [] c \in {"d", "D"} -> 13 [] c \in {"e", "E"} -> 14 [] c \in {"f", "F"} -> 15
    [] OTHER -> 99

\* First position at or after i that holds no white space.
RECURSIVE SkipSpace(_, _)
SkipSpace(s, i) ==
  IF i <= Len(s) /\ s[i] \in WhiteSpace THEN SkipSpace(s, i + 1) ELSE i

\* The conversion accumulates the number as strtol does, in an unsigned long
\* of 64 bits, kept here as four limbs of 16 bits (l0 the lowest) and a flag
\* telling that the number went beyond 64 bits.
LIMB == 65536
Limb(t) == t % LIMB
Carry(t) == t \div LIMB
ZeroLimbs == [l0 |-> 0, l1 |-> 0, l2 |-> 0, l3 |-> 0, ovf |-> FALSE]

\* a * base + d.
MulAdd(a, base, d) ==
  LET t0 == a.l0 * base + d
      t1 == a.l1 * base + Carry(t0)
      t2 == a.l2 * base + Carry(t1)
      t3 == a.l3 * base + Carry(t2)
  IN  [l0 |-> Limb(t0), l1 |-> Limb(t1), l2 |-> Limb(t2), l3 |-> Limb(t3),
       ovf |-> IF Carry(t3) > 0 THEN TRUE ELSE a.ovf]

\* The int that holds the 32 bits hi * LIMB + lo (two's complement).
ToInt(hi, lo) ==
  IF hi < LIMB \div 2 THEN hi * LIMB + lo ELSE (hi - LIMB) * LIMB + lo

\* The int stored for the number a read with or without a minus sign.  A
\* number beyond the range of long is clamped by strtol to LONG_MAX or
\* LONG_MIN; the result is stored through an int pointer, which keeps its low
\* 32 bits.  (For a number beyond the range of int the C standard leaves the
\* stored value undefined; this is the value the library of the build
\* stores.)
StoredInt(a, neg) ==
  IF ~neg THEN
    IF a.ovf THEN -1
    ELSE IF a.l3 >= LIMB \div 2 THEN -1
    ELSE ToInt(a.l1, a.l0)
  ELSE
    IF a.ovf THEN 0
    ELSE IF a.l3 >= LIMB \div 2 THEN 0
    ELSE IF a.l0 = 0 THEN ToInt((LIMB - a.l1) % LIMB, 0)
    ELSE ToInt(LIMB - 1 - a.l1, LIMB - a.l0)

\* Digits of the given base from position i on: their value and their number.
\* Once the number is beyond 64 bits the remaining digits are only consumed.
RECURSIVE ScanDigits(_, _, _, _, _)
ScanDigits(s, i, base, acc, n) ==
  IF i <= Len(s) /\ DigitVal(s[i]) < base
    THEN IF acc.ovf
           THEN ScanDigits(s, i + 1, base, acc, n + 1)
           ELSE ScanDigits(s, i + 1, base, MulAdd(acc, base, DigitVal(s[i])),
                           n + 1)
    ELSE [val |-> acc, n |-> n]

\* The %i conversion at position i: optional sign, then a hexadecimal (0x),
\* octal (leading 0) or decimal number.  rv is 1 on success, 0 on a matching
\* failure and -1 (EOF) when the input ends before the conversion.  A 0x that
\* no hexadecimal digit follows converts to 0.
ScanInt(s, i) ==
  LET j == SkipSpace(s, i)
      neg == j <= Len(s) /\ s[j] = "-"
      k == IF j <= Len(s) /\ s[j] \in {"+", "-"} THEN j + 1 ELSE j
      hex == k + 1 <= Len(s) /\ s[k] = "0" /\ s[k + 1] \in {"x", "X"}
      oct == k <= Len(s) /\ s[k] = "0"
      d == IF hex THEN ScanDigits(s, k + 2, 16, ZeroLimbs, 0)
           ELSE IF oct THEN ScanDigits(s, k, 8, ZeroLimbs, 0)
           ELSE ScanDigits(s, k, 10, ZeroLimbs, 0)
  IN  IF j > Len(s) THEN [rv |-> -1, val |-> 0]
      ELSE IF d.n = 0 THEN [rv |-> IF hex THEN 1 ELSE 0, val |-> 0]
      ELSE [rv |-> 1, val |-> StoredInt(d.val, neg)]

\* The literal characters of the format "flash %i" before its white space.
FlashLiteral == <<"f", "l", "a", "s", "h">>

\* Matching of the literal part: "ok", "eof" (input exhausted) or "mismatch".
RECURSIVE MatchLiteral(_, _, _)
MatchLiteral(s, lit, k) ==
  IF k > Len(lit) THEN "ok"
  ELSE IF k > Len(s) THEN "eof"
  ELSE IF s[k] # lit[k] THEN "mismatch"
  ELSE MatchLiteral(s, lit, k + 1)

\* sscanf (input, "flash %i", &arg): the return value and the value arg holds
\* afterwards (arg is left alone unless the conversion succeeds).
sscanf_flash(input, arg) ==
  LET m == MatchLiteral(input, FlashLiteral, 1)
      c == ScanInt(input, Len(FlashLiteral) + 1)
  IN  IF m = "eof" THEN [rv |-> -1, arg |-> arg]
      ELSE IF m = "mismatch" THEN [rv |-> 0, arg |-> arg]
      ELSE IF c.rv = 1 THEN [rv |-> 1, arg |-> c.val]
      ELSE [rv |-> c.rv, arg |-> arg]

\* sprintf (shell_state.output, "\r\nCalled %i times", cnt)
sprintf_cnt(cnt) == "\r\nCalled " \o ToString(cnt) \o " times"

\* sprintf (shell_state.output, "\r\nValues : %i %li", cnt, accu / 10000)
sprintf_load(cnt, val) == "\r\nValues : " \o ToString(cnt) \o " " \o ToString(val)

\* LED(a): the level HAL_GPIO_WritePin drives, GPIO_PIN_SET (1) or RESET (0).
LED_inverted(a) == IF a = 1 THEN 0 ELSE 1
LED(a) == IF a = 1 THEN 1 ELSE 0

\* -------------------------------------------------------------- the state
VARIABLES
  shell_fp,      \* the function the main loop calls at the next tick
  shell_state,   \* input, output, busy, command_fp
  cnt_state,     \* command_cnt: static int state
  cnt_cnt,       \* command_cnt: static int cnt
  load_state,    \* command_load: static int state
  load_cnt,      \* command_load: static int cnt
  load_accu,     \* command_load: static volatile long long accu
  flash_state,   \* command_flash: static int state
  flash_arg,     \* command_flash: static int arg
  flash_delay,   \* command_flash: static int delay
  max_delay,     \* command_flash: const int max_delay
  led,           \* level of the LED pin
  led_writes,    \* levels written with LED() since the last selection
  flash_ticks,   \* calls of command_flash since the last selection
  flash_excess,  \* flash_ticks - 2 * N * max_delay of the last completed flash
  runs,          \* number of selections of each command so far
  nav,           \* blocks entered from the root down to the current block
  call,          \* handlers and loop iterations executed by the last call
  load_writes,   \* command_load: output writes since the last selection
  cnt_alt,       \* explicit-switch command_cnt: static int state, cnt
  flash_alt,     \* explicit-switch command_flash: statics, writes, completion
  toggle_runs    \* consecutive selections of led, LED level before them

vars == << shell_fp, shell_state, cnt_state, cnt_cnt, load_state, load_cnt,
           load_accu, flash_state, flash_arg, flash_delay, max_delay, led,
           led_writes, flash_ticks, flash_excess, runs, nav, call,
           load_writes, cnt_alt, flash_alt, toggle_runs >>

cnt_vars == << cnt_state, cnt_cnt >>
load_vars == << load_state, load_cnt, load_accu >>
flash_vars == << flash_state, flash_arg, flash_delay >>

Commands == {"command_cnt", "command_led_toggle", "command_load", "command_flash"}

\* ------------------------------------------------------------------ macros
\* RETURN: state = 0; shell_fp = shell_state_output; shell_state.command_fp = 0;
RETURN_to_prompt ==
  [state |-> 0, shell_fp |-> "shell_state_input", command_fp |-> NULL]
RETURN ==
  [state |-> 0, shell_fp |-> "shell_state_output", command_fp |-> NULL]

\* ------------------------------------------------------------- command_cnt
\* STATE 0: print the counter, ask for the output phase, go to state 1.
cnt_case0_preincrement(cnt) ==
  [output |-> sprintf_cnt(cnt + 1), shell_fp |-> "shell_state_output",
   state |-> 1, cnt |-> cnt + 1]
cnt_case0(cnt) ==
  [output |-> sprintf_cnt(cnt), shell_fp |-> "shell_state_output",
   state |-> 1, cnt |-> cnt]

\* STATE 1: count the run, then RETURN.
cnt_case1_DONE(cnt) == [cnt |-> cnt + 1, state |-> 1]
cnt_case1(cnt) == [cnt |-> cnt + 1, state |-> RETURN.state]

\* --------------------------------------- command_cnt, the explicit switch
\* The variant of command_cnt compiled without USING_STATE_MACHINE_MACROS,
\* applied to the values c of state, cnt, shell_state.output, shell_fp and
\* shell_state.command_fp.
\* case 0: print the counter, ask for the output phase, state = 1.
cnt_switch_case0(c) ==
  [c EXCEPT !.output = sprintf_cnt(c.cnt), !.shell_fp = "shell_state_output",
            !.state = 1]

\* case 1: cnt++, state = 0, end the command, ask for the output phase.
cnt_switch_case1_keeps_state(c) ==
  [c EXCEPT !.cnt = c.cnt + 1, !.command_fp = NULL,
            !.shell_fp = "shell_state_output"]
cnt_switch_case1(c) ==
  [c EXCEPT !.cnt = c.cnt + 1, !.state = 0, !.command_fp = NULL,
            !.shell_fp = "shell_state_output"]

\* switch (state) with a break at the end of each case.
cnt_switch(c) ==
  IF c.state = 0 THEN cnt_switch_case0(c)
  ELSE IF c.state = 1 THEN cnt_switch_case1(c)
  ELSE c

\* One call of the explicit-switch variant with the statics alt, made on the
\* current values of the shared variables.
cnt_switch_call(alt, output, fp, command_fp) ==
  cnt_switch([state |-> alt.state, cnt |-> alt.cnt, output |-> output,
              shell_fp |-> fp, command_fp |-> command_fp])

\* The statics that a call leaves.
cnt_statics(c) == [state |-> c.state, cnt |-> c.cnt]

\* ------------------------------------------------------------ command_load
\* accu is kept as two limbs, accu = hi * ACCU_DIV + lo, so that its printed
\* value accu / 10000 is the limb hi.  One execution of the inner loop adds
\* cnt * (0 + 1 + ... + 9999).
LoopSum == (LOAD_LOOP * (LOAD_LOOP - 1)) \div 2
accu_add(accu, cnt) ==
  LET lo == accu.lo + cnt * (LoopSum % ACCU_DIV)
  IN  [hi |-> accu.hi + cnt * (LoopSum \div ACCU_DIV) + lo \div ACCU_DIV,
       lo |-> lo % ACCU_DIV]

\* case 0: wait for the previous transfer, then go to state 1.
load_case0_inverted(busy) == IF busy = 1 THEN 1 ELSE 0
load_case0(busy) == IF busy = 0 THEN 1 ELSE 0

\* case 2: the end test, on the counter already incremented by case 1.
load_done_early(cnt) == cnt = LOAD_LIMIT - 1
load_done(cnt) == cnt = LOAD_LIMIT

\* Iterations of the for loop of case 2 one call executes: the only loop of
\* the command functions, with a literal trip count.
load_iters(state, cnt) ==
  IF state = 2 /\ ~load_done(cnt) THEN LOAD_LOOP ELSE 0

\* --------------------------------------------------------- command_flash
\* STATE 0: parse the command line; state 1 when an argument > 0 was decoded.
flash_case0_nonnegative(input, arg) ==
  LET r == sscanf_flash(input, arg)
  IN  [arg |-> r.arg, state |-> IF (r.rv = 1) /\ (r.arg >= 0) THEN 1 ELSE 6]
flash_case0(input, arg) ==
  LET r == sscanf_flash(input, arg)
  IN  [arg |-> r.arg, state |-> IF (r.rv = 1) /\ (r.arg > 0) THEN 1 ELSE 6]

\* STATE 2 and STATE 4: one tick of a delay loop that leaves to state next.
flash_delay_tick_late(delay, self, next) ==
  [delay |-> delay - 1, state |-> IF delay - 1 >= 0 THEN self ELSE next]
flash_delay_tick(delay, self, next) ==
  [delay |-> delay - 1, state |-> IF delay - 1 > 0 THEN self ELSE next]

\* STATE 5: decrement arg and test for completion.
flash_case5_skip_on(arg) ==
  [arg |-> arg - 1, state |-> IF arg - 1 = 0 THEN 6 ELSE 3]
flash_case5(arg) ==
  [arg |-> arg - 1, state |-> IF arg - 1 = 0 THEN 6 ELSE 1]

\* The argument the current input line carries: N > 0 when the line parses
\* as "flash <integer>" with a positive integer, 0 otherwise.
FlashN(input) ==
  LET r == sscanf_flash(input, 0)
  IN  IF r.rv = 1 /\ r.arg > 0 THEN r.arg ELSE 0

\* -------------------------------------------------------------- the switch
\* STATE expands to "break; case": every handler of a function written with
\* the macros ends with a break before the next label.
STATE_without_break == FALSE
STATE_breaks == TRUE

\* switch (state): the labels whose handlers one call executes.  Control
\* enters at the label equal to state (no such label: no handler) and runs
\* on to the next break, or to the end of the switch when there is none.
SwitchRun(state, last, breaks) ==
  IF state \notin 0 .. last THEN << >>
  ELSE IF breaks THEN << state >>
  ELSE [i \in 1 .. (last - state + 1) |-> state + i - 1]

\* ------------------------------------------------------ command functions
\* The handler of one label of command_cnt, applied to the values c of
\* state, cnt, shell_state.output, shell_fp and shell_state.command_fp.
cnt_after0(c, n) ==
  [c EXCEPT !.output = n.output, !.shell_fp = n.shell_fp,
            !.state = n.state, !.cnt = n.cnt]
cnt_after1(c, n) ==
  [c EXCEPT !.cnt = n.cnt, !.state = n.state,
            !.shell_fp = RETURN.shell_fp, !.command_fp = RETURN.command_fp]
cnt_handler(label, c) ==
  IF label = 0 THEN cnt_after0(c, cnt_case0(c.cnt))
  ELSE cnt_after1(c, cnt_case1(c.cnt))

\* The handlers of the labels of one call, in order.
RECURSIVE cnt_run(_, _)
cnt_run(labels, c) ==
  IF labels = << >> THEN c
  ELSE cnt_run(Tail(labels), cnt_handler(Head(labels), c))

\* The values of state, cnt, output, shell_fp and command_fp after one call
\* of command_cnt made with the counter cnt.
cnt_call(cnt) ==
  cnt_run(SwitchRun(cnt_state, 1, STATE_breaks),
          [state |-> cnt_state, cnt |-> cnt, output |-> shell_state.output,
           shell_fp |-> shell_fp, command_fp |-> shell_state.command_fp])

\* The effect of one call of command_cnt on the variables it shares.
cnt_effect(c) ==
  /\ cnt_state' = c.state
  /\ shell_fp' = c.shell_fp
  /\ shell_state' = [shell_state EXCEPT !.output = c.output,
                                        !.command_fp = c.command_fp]
  /\ call' = [handlers |-> Len(SwitchRun(cnt_state, 1, STATE_breaks)),
              iters |-> 0]
  /\ cnt_alt' = cnt_statics(cnt_switch_call(cnt_alt, shell_state.output,
                                            shell_fp, shell_state.command_fp))

\* void command_cnt (): one call.
command_cnt_shared_counter ==
  /\ shell_fp = "command_cnt"
  /\ cnt_effect(cnt_call(load_cnt))
  /\ load_cnt' = cnt_call(load_cnt).cnt
  /\ UNCHANGED << cnt_cnt, load_state, load_accu, flash_vars, max_delay, led,
                  led_writes, flash_ticks, flash_excess, runs, nav,
                  load_writes, flash_alt, toggle_runs >>

command_cnt ==
  /\ shell_fp = "command_cnt"
  /\ cnt_effect(cnt_call(cnt_cnt))
  /\ cnt_cnt' = cnt_call(cnt_cnt).cnt
  /\ UNCHANGED << load_vars, flash_vars, max_delay, led, led_writes,
                  flash_ticks, flash_excess, runs, nav, load_writes,
                  flash_alt, toggle_runs >>

\* HAL_GPIO_TogglePin (LED_GPIO_Port, LED_Pin): the level of the pin after it.
HAL_GPIO_TogglePin_sets(level) == 1
HAL_GPIO_TogglePin(level) == 1 - level

\* void command_led_toggle (): toggles the pin and ends in the same call.
command_led_toggle ==
  /\ shell_fp = "command_led_toggle"
  /\ led' = HAL_GPIO_TogglePin(led)
  /\ shell_fp' = "shell_state_output"
  /\ shell_state' = [shell_state EXCEPT !.command_fp = NULL]
  /\ call' = [handlers |-> 1, iters |-> 0]
  /\ UNCHANGED << cnt_vars, load_vars, flash_vars, max_delay, led_writes,
                  flash_ticks, flash_excess, runs, nav, load_writes,
                  cnt_alt, flash_alt, toggle_runs >>

\* void command_load (): one call, the handler of the current state.
command_load ==
  /\ shell_fp = "command_load"
  /\ IF load_state = 0 THEN
       /\ load_state' = load_case0(shell_state.busy)
       /\ UNCHANGED << shell_state, shell_fp, load_cnt, load_accu >>
     ELSE IF load_state = 1 THEN
       /\ shell_state' = [shell_state EXCEPT
                            !.output = sprintf_load(load_cnt, load_accu.hi)]
       /\ load_cnt' = load_cnt + 1
       /\ shell_fp' = "shell_state_output"
       /\ load_state' = 2
       /\ UNCHANGED load_accu
     ELSE IF load_state = 2 THEN
       /\ load_state' = 0
       /\ IF load_done(load_cnt) THEN
            /\ load_cnt' = 0
            /\ shell_fp' = "shell_state_output"
            /\ shell_state' = [shell_state EXCEPT !.command_fp = NULL]
            /\ UNCHANGED load_accu
          ELSE
            /\ load_accu' = accu_add(load_accu, load_cnt)
            /\ UNCHANGED << shell_state, shell_fp, load_cnt >>
     ELSE UNCHANGED << shell_state, shell_fp, load_vars >>
  /\ call' = [handlers |-> Len(SwitchRun(load_state, 2, TRUE)),
              iters |-> load_iters(load_state, load_cnt)]
  /\ load_writes' = IF load_state = 1 THEN load_writes + 1 ELSE load_writes
  /\ UNCHANGED << cnt_vars, flash_vars, max_delay, led, led_writes,
                  flash_ticks, flash_excess, runs, nav, cnt_alt, flash_alt,
                  toggle_runs >>

\* ------------------------------------- command_flash, the explicit switch
\* The variant of command_flash compiled without USING_STATE_MACHINE_MACROS.
\* case 2 and case 4: one call of a delay loop; the call that finds
\* delay = 0 only moves on to the next state.
flash_switch_delay(c) ==
  IF c.delay > 0 THEN [c EXCEPT !.delay = c.delay - 1]
  ELSE [c EXCEPT !.state = c.state + 1]

\* case 0: parse the command line.
flash_switch_case0(c, r) ==
  [c EXCEPT !.arg = r.arg,
            !.state = IF (r.rv = 1) /\ (r.arg > 0) THEN c.state + 1 ELSE 6]

\* case 1 and case 3: write the level to the pin and start a delay.
flash_switch_write(c, level, maxd) ==
  [c EXCEPT !.writes = Append(c.writes, level), !.delay = maxd,
            !.state = c.state + 1]

\* case 5: decrement arg and test for completion.
flash_switch_case5(c) ==
  [c EXCEPT !.arg = c.arg - 1,
            !.state = IF c.arg - 1 = 0 THEN c.state + 1 ELSE 1]

\* case 6: the command is complete.
flash_switch_case6(c) == [c EXCEPT !.state = 0, !.done = TRUE]

\* One call: switch (state) with a break at the end of each case, applied to
\* the statics state, arg and delay, the levels written so far in the run
\* and whether the run has completed.
flash_switch(c, input, maxd) ==
  CASE c.state = 0 -> flash_switch_case0(c, sscanf_flash(input, c.arg))
    [] c.state = 1 -> flash_switch_write(c, 1, maxd)
    [] c.state = 2 -> flash_switch_delay(c)
    [] c.state = 3 -> flash_switch_write(c, 0, maxd)
    [] c.state = 4 -> flash_switch_delay(c)
    [] c.state = 5 -> flash_switch_case5(c)
    [] c.state = 6 -> flash_switch_case6(c)
    [] OTHER -> c

\* ------------------------------------------ command_flash, the macros
\* The handler of one state of command_flash: the values of state, arg and
\* delay after the call, the level written with LED() (-1: none) and whether
\* RETURN was executed.
flash_step(state, arg, delay, input, maxd) ==
  CASE state = 0 ->
         LET n == flash_case0(input, arg)
         IN  [state |-> n.state, arg |-> n.arg, delay |-> delay, write |-> -1, ret |-> FALSE]
    [] state = 1 ->
         [state |-> state + 1, arg |-> arg, delay |-> maxd, write |-> LED(1), ret |-> FALSE]
    [] state = 2 ->
         LET n == flash_delay_tick(delay, 2, 3)
         IN  [state |-> n.state, arg |-> arg, delay |-> n.delay, write |-> -1, ret |-> FALSE]
    [] state = 3 ->
         [state |-> state + 1, arg |-> arg, delay |-> maxd, write |-> LED(0), ret |-> FALSE]
    [] state = 4 ->
         LET n == flash_delay_tick(delay, 4, 5)
         IN  [state |-> n.state, arg |-> arg, delay |-> n.delay, write |-> -1, ret |-> FALSE]
    [] state = 5 ->
         LET n == flash_case5(arg)
         IN  [state |-> n.state, arg |-> n.arg, delay |-> delay, write |-> -1, ret |-> FALSE]
    [] state = 6 ->
         [state |-> RETURN.state, arg |-> arg, delay |-> delay, write |-> -1, ret |-> TRUE]
    [] OTHER ->
         [state |-> state, arg |-> arg, delay |-> delay, write |-> -1, ret |-> FALSE]

\* The handler of one label of command_flash, applied to the values c of
\* state, arg and delay, the levels written with LED() so far in the call and
\* whether RETURN was executed.
flash_after(c, n) ==
  [state |-> n.state, arg |-> n.arg, delay |-> n.delay,
   writes |-> IF n.write = -1 THEN c.writes ELSE Append(c.writes, n.write),
   ret |-> IF n.ret THEN TRUE ELSE c.ret]
flash_handler(label, c, input, maxd) ==
  flash_after(c, flash_step(label, c.arg, c.delay, input, maxd))

RECURSIVE flash_run(_, _, _, _)
flash_run(labels, c, input, maxd) ==
  IF labels = << >> THEN c
  ELSE flash_run(Tail(labels), flash_handler(Head(labels), c, input, maxd),
                 input, maxd)

\* The effect of one call of command_flash that leaves the values n, made
\* on an input line that carries the argument N.
flash_effect(n, N) ==
  /\ flash_state' = n.state
  /\ flash_arg' = n.arg
  /\ flash_delay' = n.delay
  /\ led' = IF n.writes = << >> THEN led ELSE n.writes[Len(n.writes)]
  /\ led_writes' = led_writes \o n.writes
  /\ shell_fp' = IF n.ret THEN RETURN.shell_fp ELSE shell_fp
  /\ shell_state' = IF n.ret
                      THEN [shell_state EXCEPT !.command_fp = RETURN.command_fp]
                      ELSE shell_state
  /\ flash_ticks' = flash_ticks + 1
  /\ flash_excess' = IF n.ret /\ N > 0
                       THEN flash_ticks + 1 - 2 * N * max_delay
                       ELSE flash_excess
  /\ call' = [handlers |-> Len(SwitchRun(flash_state, 6, STATE_breaks)),
              iters |-> 0]

\* void command_flash (): one call.
command_flash ==
  /\ shell_fp = "command_flash"
  /\ flash_effect(flash_run(SwitchRun(flash_state, 6, STATE_breaks),
                            [state |-> flash_state, arg |-> flash_arg,
                             delay |-> flash_delay, writes |-> << >>,
                             ret |-> FALSE],
                            shell_state.input, max_delay),
                  FlashN(shell_state.input))
  /\ flash_alt' = flash_switch(flash_alt, shell_state.input,
                               flash_alt.max_delay)
  /\ UNCHANGED << cnt_vars, load_vars, max_delay, runs, nav, load_writes,
                  cnt_alt, toggle_runs >>

\* ------------------------------------------------- the outer shell (spec)
\* The output phase: waits while a transfer is in progress, then starts the
\* transfer of the output buffer (busy is set) and hands the next tick to the
\* active command, or to the input phase when no command is active.
shell_state_output ==
  /\ shell_fp = "shell_state_output"
  /\ shell_state.busy = 0
  /\ shell_state' = [shell_state EXCEPT !.busy = 1]
  /\ shell_fp' = IF shell_state.command_fp = NULL THEN "shell_state_input"
                 ELSE shell_state.command_fp
  /\ UNCHANGED << cnt_vars, load_vars, flash_vars, max_delay, led, led_writes,
                  flash_ticks, flash_excess, runs, nav, call, load_writes,
                  cnt_alt, flash_alt, toggle_runs >>

\* Completion of the transfer, signalled between two ticks.
transfer_complete ==
  /\ shell_state.busy = 1
  /\ shell_state' = [shell_state EXCEPT !.busy = 0]
  /\ UNCHANGED << shell_fp, cnt_vars, load_vars, flash_vars, max_delay, led,
                  led_writes, flash_ticks, flash_excess, runs, nav, call,
                  load_writes, cnt_alt, flash_alt, toggle_runs >>

\* Input lines submitted with each command.
FlashLines ==
  { FlashLiteral \o <<" ", "1">>, FlashLiteral \o <<" ", VT, "2">>,
    FlashLiteral \o <<"\f", "3">>, FlashLiteral \o <<" ", "0">>,
    FlashLiteral \o <<" ", "-", "1">>, FlashLiteral \o <<" ", "x">>,
    FlashLiteral,
    FlashLiteral \o <<" ", "2", "1", "4", "7", "4", "8", "3", "6", "4", "8">>,
    FlashLiteral \o <<" ", "4", "2", "9", "4", "9", "6", "7", "2", "9", "7">> }

\* Values of max_delay: those explored and the one of the source.
MaxDelays == (1 .. MaxDelayBound) \cup {MAX_DELAY}

\* max_delay of the explicit-switch variant that goes with the value d of the
\* macro variant: the source's own constant with the source's value, the
\* same value with an explored one.
SwitchDelay(d) == IF d = MAX_DELAY THEN MAX_DELAY_SWITCH ELSE d

\* The runs that are explored: with a max_delay above MaxDelayBound, those of
\* command_flash on a line that does not flash.
Explored(f, line, d) ==
  IF f = "command_flash" /\ d > MaxDelayBound THEN FlashN(line) = 0 ELSE TRUE
InputLines(f) ==
  CASE f = "command_flash" -> FlashLines
    [] f = "command_cnt" -> { <<"c", "n", "t">> }
    [] f = "command_led_toggle" -> { <<"l", "e", "d">> }
    [] f = "command_load" -> { <<"l", "o", "a", "d">> }

TotalRuns ==
  runs["command_cnt"] + runs["command_led_toggle"] + runs["command_load"]
    + runs["command_flash"]

current_block == nav[Len(nav)]

\* root (): the block navigation starts from.
root == nav[1]
\* The blocks of the command tree under the root.
Tree == BlocksFrom({root}, {})

\* The input phase selects a leaf of the current block: the command becomes
\* the active command and is called from the next tick on.
input_select ==
  /\ shell_fp = "shell_state_input"
  /\ TotalRuns < MaxRuns
  /\ \E i \in 1 .. entry_count(current_block) :
       LET f == select(child(current_block, i))
       IN  /\ f # NULL
           /\ (f = "command_load" => runs[f] < MaxLoadRuns)
           /\ \E line \in InputLines(f) :
                /\ Explored(f, line, max_delay)
                /\ shell_state' = [shell_state EXCEPT !.input = line,
                                                      !.command_fp = f]
                /\ shell_fp' = f
                /\ runs' = [runs EXCEPT ![f] = @ + 1]
                /\ toggle_runs' =
                     IF f = "command_led_toggle"
                       THEN [streak |-> toggle_runs.streak + 1,
                             level |-> IF toggle_runs.streak = 0 THEN led
                                       ELSE toggle_runs.level]
                       ELSE [streak |-> 0, level |-> 0]
  /\ led_writes' = << >>
  /\ flash_ticks' = 0
  /\ call' = [handlers |-> 0, iters |-> 0]
  /\ load_writes' = 0
  /\ flash_alt' = [state |-> flash_state, arg |-> flash_arg,
                   delay |-> flash_delay, writes |-> << >>, done |-> FALSE,
                   max_delay |-> flash_alt.max_delay]
  /\ UNCHANGED << cnt_vars, load_vars, flash_vars, max_delay, led,
                  flash_excess, nav, cnt_alt >>

\* The input phase enters the submenu of an entry of the current block.
input_descend ==
  /\ shell_fp = "shell_state_input"
  /\ \E i \in 1 .. entry_count(current_block) :
       LET b == descend(child(current_block, i))
       IN  /\ b # NULL
           /\ nav' = Append(nav, b)
  /\ UNCHANGED << shell_fp, shell_state, cnt_vars, load_vars, flash_vars,
                  max_delay, led, led_writes, flash_ticks, flash_excess, runs,
                  call, load_writes, cnt_alt, flash_alt, toggle_runs >>

\* The input phase goes back to the parent of the current block.
input_back ==
  /\ shell_fp = "shell_state_input"
  /\ Len(nav) > 1
  /\ nav' = SubSeq(nav, 1, Len(nav) - 1)
  /\ UNCHANGED << shell_fp, shell_state, cnt_vars, load_vars, flash_vars,
                  max_delay, led, led_writes, flash_ticks, flash_excess, runs,
                  call, load_writes, cnt_alt, flash_alt, toggle_runs >>

\* ------------------------------------------------------- the specification
Init ==
  /\ shell_fp = "shell_state_input"
  /\ shell_state = [input |-> << >>, output |-> "", busy |-> 0, command_fp |-> NULL]
  /\ cnt_state = 0
  /\ cnt_cnt = 0
  /\ load_state = 0
  /\ load_cnt = 0
  /\ load_accu = [hi |-> 0, lo |-> 0]
  /\ flash_state = 0
  /\ flash_arg = 0
  /\ flash_delay = 0
  /\ max_delay \in MaxDelays
  /\ led = 0
  /\ led_writes = << >>
  /\ flash_ticks = 0
  /\ flash_excess = -1
  /\ runs = [c \in Commands |-> 0]
  /\ nav = << "root_block" >>
  /\ call = [handlers |-> 0, iters |-> 0]
  /\ load_writes = 0
  /\ cnt_alt = [state |-> 0, cnt |-> 0]
  /\ flash_alt = [state |-> 0, arg |-> 0, delay |-> 0, writes |-> << >>,
                  done |-> FALSE, max_delay |-> SwitchDelay(max_delay)]
  /\ toggle_runs = [streak |-> 0, level |-> 0]

Next ==
  \/ command_cnt
  \/ command_led_toggle
  \/ command_load
  \/ command_flash
  \/ shell_state_output
  \/ transfer_complete
  \/ input_select
  \/ input_descend
  \/ input_back

Spec == Init /\ [][Next]_vars

\* The shell running command_load only, with the main loop calling shell_fp
\* forever: a tick that can be taken is eventually taken.  Nothing is assumed
\* about the completion of transfers.
select_load ==
  /\ input_select
  /\ shell_fp' = "command_load"

LoadNext ==
  \/ command_load
  \/ shell_state_output
  \/ transfer_complete
  \/ select_load

LoadSpec ==
  /\ Init
  /\ [][LoadNext]_vars
  /\ WF_vars(command_load)
  /\ WF_vars(shell_state_output)

\* ------------------------------------------------------------ properties
\* C1: in every run of every command, the only tick that clears
\* shell_state.command_fp is a tick of the active command itself, it hands
\* the phase to shell_state_output in the same tick, and it ends the run: no
\* command is called while it is not the active command, so command_fp is
\* cleared once per run, by the run's last tick.
C1_ClearOnceWithOutput ==
  [][ /\ (shell_fp \in Commands => shell_state.command_fp = shell_fp)
      /\ (shell_state.command_fp # NULL /\ shell_state'.command_fp = NULL
            => shell_fp = shell_state.command_fp /\ shell_fp' = "shell_state_output")
      /\ (shell_state.command_fp # NULL
            => shell_state'.command_fp \in {shell_state.command_fp, NULL}) ]_vars

\* Runs of a one-call command, of command_load and of command_flash have all
\* ended, the last one this instant.
C1_Witness ==
  /\ shell_state.command_fp = NULL
  /\ shell_fp = "shell_state_output"
  /\ runs["command_load"] = 1
  /\ runs["command_flash"] = 1
  /\ runs["command_cnt"] = 1
  /\ cnt_cnt = 1

\* C2: a step changes the persistent variables of a command only when that
\* command is the one being called, and the command being called is the one
\* shell_state.command_fp refers to.
C2_SingleActiveCommand ==
  [][ /\ (shell_fp \in Commands => shell_state.command_fp = shell_fp)
      /\ (shell_fp # "command_cnt" => UNCHANGED cnt_vars)
      /\ (shell_fp # "command_load" => UNCHANGED load_vars)
      /\ (shell_fp # "command_flash" => UNCHANGED flash_vars) ]_vars

\* command_cnt runs while command_load and command_flash hold values left by
\* their own runs.
C2_Witness ==
  /\ shell_fp = "command_cnt"
  /\ cnt_state = 1
  /\ load_accu.hi > 0
  /\ flash_arg = -1

\* The LED writes of a run with argument n: on, off, on, off, ...
OnOff(n) == [i \in 1 .. 2 * n |-> IF i % 2 = 1 THEN 1 ELSE 0]
IsPrefix(a, b) == Len(a) <= Len(b) /\ a = SubSeq(b, 1, Len(a))

\* C3: in a run of command_flash whose line carries N > 0, the LED writes
\* made so far are at every tick a prefix of on, off, on, off, ..., and at
\* the completing tick they are exactly N on/off pairs, for every max_delay.
C3_FlashPairs ==
  [][ (shell_fp = "command_flash" /\ FlashN(shell_state.input) > 0)
        => /\ IsPrefix(led_writes', OnOff(FlashN(shell_state.input)))
           /\ (shell_state'.command_fp = NULL
                 => led_writes' = OnOff(FlashN(shell_state.input))) ]_vars

\* A run with argument 3, typed behind a form feed, and the largest explored
\* delay has completed.
C3_Witness ==
  /\ shell_state.command_fp = NULL
  /\ shell_state.input = FlashLiteral \o <<"\f", "3">>
  /\ FlashN(shell_state.input) = 3
  /\ led_writes = << 1, 0, 1, 0, 1, 0 >>
  /\ max_delay = MaxDelayBound
  /\ flash_state = 0

\* C4: in a run of command_flash whose line does not carry an argument > 0,
\* state 0 leads to state 6, state 6 completes the run, no other state is
\* visited and the LED is never written: no step of the run changes the pin
\* and every call (a step that advances flash_ticks) goes 0 -> 6 or completes.
C4_InvalidArgumentNoLed ==
  [][ (shell_fp = "command_flash" /\ FlashN(shell_state.input) = 0)
        => /\ flash_state \in {0, 6}
           /\ led_writes' = << >>
           /\ led' = led
           /\ (flash_ticks' # flash_ticks /\ flash_state = 0 => flash_state' = 6)
           /\ (flash_ticks' # flash_ticks /\ flash_state = 6
                 => flash_state' = 0 /\ shell_state'.command_fp = NULL) ]_vars

\* A line that does not parse has completed its run with arg still holding
\* the negative value left by an earlier run, whose number 2147483648 was
\* beyond the range of int.
C4_Witness ==
  /\ shell_state.command_fp = NULL
  /\ shell_state.input = FlashLiteral \o <<" ", "x">>
  /\ flash_ticks = 2
  /\ flash_arg = -2147483647 - 1
  /\ runs["command_flash"] = 2

\* C5: with k the number of selections of command_cnt so far, cnt is k - 1
\* during the k-th run and k once it has completed (one more per run), and
\* the text the k-th run writes reports k - 1.
C5_CountPerRun ==
  LET k == runs["command_cnt"]
  IN  /\ cnt_cnt = (IF shell_state.command_fp = "command_cnt" THEN k - 1 ELSE k)
      /\ (shell_state.command_fp = "command_cnt" /\ cnt_state = 1
            => shell_state.output = "\r\nCalled " \o ToString(k - 1) \o " times")

\* The second run of command_cnt, after a run of another command in
\* between, has written its text.
C5_Witness ==
  /\ shell_state.command_fp = "command_cnt"
  /\ cnt_state = 1
  /\ runs["command_cnt"] = 2
  /\ runs["command_load"] = 1
  /\ shell_state.output = "\r\nCalled 1 times"

\* C6 (as amended): a completed run of command_flash with argument N >= 1
\* and max_delay = D >= 1 has taken exactly N * (2 * D + 3) + 2 calls: the
\* calls beyond 2 * N * D are 3 * N + 2, whatever D is.
C6_FlashTicks ==
  LET N == FlashN(shell_state.input)
  IN  (shell_state.command_fp = NULL /\ N > 0)
        => /\ flash_ticks = N * (2 * max_delay + 3) + 2
           /\ flash_excess = 3 * N + 2

\* A run with argument 2 has completed after a run with argument 1.
C6_Witness ==
  /\ shell_state.command_fp = NULL
  /\ FlashN(shell_state.input) = 2
  /\ runs["command_flash"] = 2
  /\ flash_ticks = 4 * max_delay + 8
  /\ flash_excess = 8
  /\ max_delay = MaxDelayBound

\* C6 (as claimed): the calls of a completed run beyond 2 * N * D are the
\* same constant in every run: the completing call of a run leaves the
\* excess the previous completed run recorded.
C6_ExcessIsConstant ==
  [][ (shell_fp = "command_flash" /\ FlashN(shell_state.input) > 0
         /\ shell_state'.command_fp = NULL /\ flash_excess # -1)
        => flash_excess' = flash_excess ]_vars

\* C7 (as amended): in whichever of the three blocks the shell is, the count
\* of the block's title entry equals the number of entries that follow the
\* title in the array.
C7_CountExcludesTitle ==
  entry_count(current_block) = PhysicalEntries(current_block) - 1

\* The shell has walked through all three blocks down to level_2_block and
\* selected its last entry, the one at the index the title's count gives.
C7_Witness ==
  /\ Tree = BlockNames
  /\ nav = << "root_block", "level_1_block", "level_2_block" >>
  /\ entry_count(current_block) = 2
  /\ PhysicalEntries(current_block) = 3
  /\ shell_state.command_fp = select(child(current_block, entry_count(current_block)))
  /\ shell_fp = "command_load"

\* C7 (as claimed): the count of the title entry equals the number of entries
\* physically present in the block, the title included.
C7_CountIncludesTitle ==
  entry_count(current_block) = PhysicalEntries(current_block)

\* The blocks that have the shape of the root block: 6 entries, of which 4
\* command entries and, at index 1, the submenu entry of level_1_block, with
\* the counts of both blocks being the numbers of entries behind the title.
RootShaped ==
  { b \in BlockNames :
      /\ PhysicalEntries(b) = 6
      /\ Cardinality(Leaves(b)) = 4
      /\ Submenus(b) = {1}
      /\ entry_count(b) = 5
      /\ select(child(b, 1)) = NULL
      /\ descend(child(b, 1)) = "level_1_block"
      /\ entry_count(descend(child(b, 1)))
           = PhysicalEntries(descend(child(b, 1))) - 1 }

\* C8 (as amended): root_block holds 6 entries, the title, one submenu entry
\* and 4 command entries; its count is 5, the entries behind the title;
\* entry 1 is a submenu entry whose block, level_1_block, declares the number
\* of its own entries behind the title.
C8_RootBlock ==
  /\ root = "root_block"
  /\ root \in RootShaped

\* The shell has entered the submenu of entry 1 of the root block.
C8_Witness ==
  /\ nav = << root, descend(child(root, 1)) >>
  /\ current_block = "level_1_block"
  /\ shell_fp = "shell_state_input"

\* C8 (as claimed): root_block holds 5 entries, the title and 4 invocable
\* ones, its count is 5, entry 1 is a submenu entry and the count of its
\* block is the number of entries of that block.
C8_RootHasFiveEntries ==
  /\ PhysicalEntries(root) = 5
  /\ Cardinality(Leaves(root)) = 4
  /\ entry_count(root) = 5
  /\ select(child(root, 1)) = NULL
  /\ descend(child(root, 1)) = "level_1_block"
  /\ entry_count(descend(child(root, 1)))
       = PhysicalEntries(descend(child(root, 1)))

\* The blocks in which every entry behind the title has either a child block
\* or a command function, and the title has neither.
KindExclusive ==
  { b \in BlockNames :
      \A i \in 0 .. PhysicalEntries(b) - 1 :
        LET e == child(b, i)
        IN  /\ ~(descend(e) # NULL /\ select(e) # NULL)
            /\ (i > 0 => (descend(e) # NULL) # (select(e) # NULL))
            /\ (i = 0 => descend(e) = NULL /\ select(e) = NULL) }

\* C9: in whichever of the three blocks the shell is, no entry of the block
\* has both a child block and a command function; every entry behind the
\* title has exactly one of them; the title has none.
C9_EntryKindExclusive ==
  current_block \in KindExclusive

\* Both kinds of entry have been used: two submenu entries were descended
\* and a command entry of the innermost block was selected.
C9_Witness ==
  /\ Tree = BlockNames
  /\ nav = << "root_block", "level_1_block", "level_2_block" >>
  /\ shell_state.command_fp = "command_load"
  /\ load_state = 2

\* C10 (as claimed): every call in which a command writes shell_state.output
\* (command_cnt in state 0, command_load in state 1) is made while
\* shell_state.busy is 0.
C10_NeverWriteWhileBusy ==
  [][ (\/ (shell_fp = "command_cnt" /\ cnt_state = 0 /\ cnt_state' = 1)
       \/ (shell_fp = "command_load" /\ load_state = 1 /\ load_state' = 2))
        => shell_state.busy = 0 ]_vars

\* The half of C10 that the code keeps: command_load writes only while
\* shell_state.busy is 0.
C10_LoadWritesWhenIdle ==
  [][ (shell_fp = "command_load" /\ load_state = 1 /\ load_state' = 2)
        => shell_state.busy = 0 ]_vars


\* C11: every call of a command function executes the handler of exactly one
\* state and at most the LOAD_LOOP iterations of the literal for loop of
\* command_load, whatever arg, delay and busy are: the state variables stay
\* within the labels of their switch, so that a call always finds its
\* handler, and a call never runs on into the handler of another state
\* (handlers = 0 only between a selection and the first call of the run).
C11_OneHandlerPerCall ==
  /\ call.handlers \in {0, 1}
  /\ call.iters \in {0, LOAD_LOOP}
  /\ (call.handlers = 0 => call.iters = 0 /\ shell_fp \in Commands \cup {"shell_state_input"})
  /\ cnt_state \in 0 .. 1
  /\ load_state \in 0 .. 2
  /\ flash_state \in 0 .. 6

\* A call of command_load has run the for loop, in a history in which
\* command_flash has already waited with a delay and parsed an argument.
C11_Witness ==
  /\ call = [handlers |-> 1, iters |-> LOAD_LOOP]
  /\ load_cnt = 250
  /\ runs["command_flash"] >= 1
  /\ shell_state.busy = 1


\* C12: the command blocks form a tree with exactly one root.  Whenever the
\* input phase navigates, the block navigation started from is root_block
\* and no submenu entry refers to it, every other block is referred to by
\* exactly one submenu entry, every block is reached from the root, no block
\* is among the blocks reached from it by descend steps, and the blocks
\* entered so far are a descend path on which no block occurs twice.
C12_TreeWithOneRoot ==
  shell_fp = "shell_state_input" =>
    /\ root = "root_block"
    /\ InDegree(root) = 0
    /\ \A b \in BlockNames \ {root} : InDegree(b) = 1
    /\ Tree = BlockNames
    /\ \A b \in BlockNames : b \notin Descendants(b)
    /\ \A k \in 1 .. Len(nav) - 1 : nav[k + 1] \in ChildBlocks(nav[k])
    /\ \A k, l \in 1 .. Len(nav) : nav[k] = nav[l] => k = l

\* Navigation has followed the submenu entries down to the deepest block,
\* after a command was run from a submenu.
C12_Witness ==
  /\ shell_fp = "shell_state_input"
  /\ nav = << "root_block", "level_1_block", "level_2_block" >>
  /\ InDegree("level_2_block") = 1
  /\ Descendants("root_block") = {"level_1_block", "level_2_block"}
  /\ Descendants("level_2_block") = {}
  /\ TotalRuns >= 1


\* C13: state 0 is the entry state of every fresh selection: whenever no
\* command is active, the state variables of command_cnt, command_load and
\* command_flash are all 0.
C13_IdleInStateZero ==
  shell_state.command_fp = NULL =>
    cnt_state = 0 /\ load_state = 0 /\ flash_state = 0

\* No command is active after a run of command_load, a run of command_flash
\* with a valid argument and, last, one with an argument that does not parse.
C13_Witness ==
  /\ shell_state.command_fp = NULL
  /\ runs["command_load"] = 1
  /\ runs["command_flash"] = 2
  /\ flash_excess # -1
  /\ shell_state.input = FlashLiteral \o << " ", "x" >>
  /\ cnt_state = 0 /\ load_state = 0 /\ flash_state = 0


\* C14: with ticks that keep occurring, every run of command_load eventually
\* completes unless it stays forever in state 0 with busy set; hence, when
\* busy clears again and again, every run eventually completes.
C14_LoadCompletes ==
  /\ (shell_state.command_fp = "command_load")
       ~> (\/ shell_state.command_fp = NULL
           \/ [](load_state = 0 /\ shell_state.busy = 1))
  /\ ([]<>(shell_state.busy = 0))
       => ((shell_state.command_fp = "command_load")
             ~> (shell_state.command_fp = NULL))

\* The second run of command_load, selected while the transfer of the first
\* run's last output was in progress, has completed.
C14_Witness ==
  /\ runs["command_load"] = MaxLoadRuns
  /\ shell_state.command_fp = NULL
  /\ shell_fp = "shell_state_output"
  /\ load_cnt = 0
  /\ load_state = 0
  /\ load_accu.hi > 0


\* C15: every run of command_load writes its counter to the output buffer
\* exactly LOAD_LIMIT = 500 times, with the values 0, 1, ..., 499 in this
\* order.  The call that writes is the call of case 1: the value it prints is
\* the number of writes the run has made before, and it asks for the output
\* phase.  No other call of the run changes the buffer.  The call that ends
\* the run comes after the 500th write and leaves cnt = 0 and state = 0, and
\* every run starts from cnt = 0 and state = 0.
C15_LoadWrites ==
  [][ /\ (load_state = 1 /\ load_state' = 2
            => /\ load_cnt = load_writes
               /\ load_writes < LOAD_LIMIT
               /\ shell_state'.output = sprintf_load(load_writes, load_accu.hi)
               /\ load_writes' = load_writes + 1
               /\ load_cnt' = load_writes + 1
               /\ shell_fp' = "shell_state_output")
      /\ (shell_fp = "command_load" /\ shell_state'.output # shell_state.output
            => load_state = 1 /\ load_state' = 2)
      /\ (shell_state.command_fp = "command_load"
            /\ shell_state'.command_fp = NULL
            => /\ load_writes = LOAD_LIMIT
               /\ load_writes' = LOAD_LIMIT
               /\ load_cnt' = 0
               /\ load_state' = 0
               /\ shell_fp' = "shell_state_output")
      /\ (shell_state'.command_fp = "command_load"
            /\ shell_state.command_fp = NULL
            => load_cnt = 0 /\ load_state = 0 /\ load_writes' = 0) ]_vars

\* The second run of command_load has completed after 500 writes, the last
\* one of the value 499.
C15_Witness ==
  /\ runs["command_load"] = 2
  /\ shell_state.command_fp = NULL
  /\ load_writes = LOAD_LIMIT
  /\ shell_state.output = sprintf_load(LOAD_LIMIT - 1, load_accu.hi)
  /\ load_cnt = 0


\* C16: the command_cnt written with the macros is the same function as the
\* command_cnt written with an explicit switch.  Both start from state = 0
\* and cnt = 0; at every call of command_cnt, the call of the explicit-switch
\* variant on its own statics and the same shared variables leaves the same
\* state, cnt, output text, shell_fp and shell_state.command_fp as the call
\* of the macro variant, and this over all the runs.
C16_CntVariantsAgree ==
  [][ /\ cnt_alt = cnt_statics([state |-> cnt_state, cnt |-> cnt_cnt])
      /\ cnt_alt' = cnt_statics([state |-> cnt_state', cnt |-> cnt_cnt'])
      /\ (shell_fp = "command_cnt" /\ cnt_state' # cnt_state
            => cnt_switch_call(cnt_alt, shell_state.output, shell_fp,
                               shell_state.command_fp)
                 = [state |-> cnt_state', cnt |-> cnt_cnt',
                    output |-> shell_state'.output, shell_fp |-> shell_fp',
                    command_fp |-> shell_state'.command_fp]) ]_vars

\* Both variants have completed the last of MaxRuns runs of command_cnt.
C16_Witness ==
  /\ runs["command_cnt"] = MaxRuns
  /\ shell_state.command_fp = NULL
  /\ cnt_alt = [state |-> 0, cnt |-> MaxRuns]
  /\ cnt_cnt = MaxRuns
  /\ shell_state.output = sprintf_cnt(MaxRuns - 1)


\* C17 (as claimed): the command_flash written with the macros is the same
\* function as the command_flash written with an explicit switch.  Started
\* at a selection from the same statics, with the same input line and the
\* same max_delay, after every call both are in the same state, have written
\* the same levels to the LED and have or have not completed.
C17_FlashVariantsAgree ==
  [][ flash_ticks' # flash_ticks
        => /\ flash_alt'.state = flash_state'
           /\ flash_alt'.writes = led_writes'
           /\ flash_alt'.done = (shell_state'.command_fp = NULL) ]_vars


\* C18: command_led_toggle executes in one call.  A run is over with its
\* first call: the call toggles the LED once, clears shell_state.command_fp
\* and sets shell_fp to shell_state_output, and it neither reads nor changes
\* a static variable.  So the second of two consecutive runs leaves the LED
\* in the level it had before the first.
C18_ToggleOneCall ==
  [][ /\ (shell_state.command_fp = "command_led_toggle"
            => shell_fp = "command_led_toggle")
      /\ (shell_fp = "command_led_toggle" /\ shell_fp' # shell_fp
            => /\ led' = 1 - led
               /\ shell_state'.command_fp = NULL
               /\ shell_fp' = "shell_state_output"
               /\ UNCHANGED << cnt_vars, load_vars, flash_vars >>
               /\ (toggle_runs.streak = 2 => led' = toggle_runs.level)
               /\ (toggle_runs.streak = 1 => led' = 1 - toggle_runs.level)) ]_vars

\* Two consecutive runs of command_led_toggle have completed after a run of
\* command_flash, and the LED is in the level the flash left it in.
C18_Witness ==
  /\ toggle_runs = [streak |-> 2, level |-> 0]
  /\ runs["command_flash"] = 1
  /\ runs["command_led_toggle"] = 2
  /\ shell_state.command_fp = NULL
  /\ led = 0

====
